---- MODULE Spec2Model ----
(***************************************************************************)
(* Model of hwpx_image_compressor_v3_advanced.py: the image codec search   *)
(* (compress_image), the inline base64 path (compress_base64_image,        *)
(* process_xml_images), the pipeline (process_hwpx) and the drag-and-drop  *)
(* front end that starts pipeline runs on worker threads.                  *)
(***************************************************************************)
EXTENDS Integers, Naturals, Sequences, FiniteSets, TLC

(***************************************************************************)
(* IEEE-754 binary64 arithmetic, as Python's float performs it.            *)
(* A non-negative double x is held exactly as the integer x * 2^60,        *)
(* written in three limbs <<a2, a1, a0>> = a2*2^40 + a1*2^20 + a0 with     *)
(* 0 <= a1, a0 < 2^20.  Every double in [2^-7, 2^11) is a multiple of      *)
(* 2^-60, and those are the only ones the program computes here: scale     *)
(* factors 0.9 ... 0.2, width * scale, idx / total and (idx / total) * 100.*)
(***************************************************************************)
Limb == 1024 * 1024

RECURSIVE Pow2(_)
Pow2(n) == IF n = 0 THEN 1 ELSE 2 * Pow2(n - 1)

\* Carry/borrow normalisation of three limbs that may be out of range.
Norm(a2, a1, a0) ==
    LET r0 == a0 % Limb
        c0 == (a0 - r0) \div Limb
        b1 == a1 + c0
        r1 == b1 % Limb
        c1 == (b1 - r1) \div Limb
    IN  <<a2 + c1, r1, r0>>

\* Number of low bits a value must lose to fit a 53-bit significand:
\* the value has more than 53 bits iff it is >= 2^53, iff a2 >= 2^13.
RECURSIVE DropBits(_, _)
DropBits(a2, s) == IF a2 < Pow2(13 + s) THEN s ELSE DropBits(a2, s + 1)

\* Round-to-nearest, ties-to-even, to a 53-bit significand.  sticky = 1 says
\* the exact value lies strictly between x and x + 2^-60 (a division
\* remainder).  At most 18 bits are dropped, all of them in the low limb.
RoundDouble(x, sticky) ==
    LET s    == DropBits(x[1], 0)
        m    == Pow2(s)
        r    == x[3] % m
        half == m \div 2
        odd  == ((x[3] - r) \div m) % 2 = 1
        up   == \/ r > half
                \/ r = half /\ sticky = 1
                \/ r = half /\ sticky = 0 /\ odd
    IN  IF s = 0 THEN x
        ELSE IF up THEN Norm(x[1], x[2], x[3] - r + m)
        ELSE <<x[1], x[2], x[3] - r>>

\* float(i) / float(t) for integers 0 <= i < 2^11, 0 < t < 2^11.
FDiv(i, t) ==
    LET n2 == i * Limb
        q2 == n2 \div t
        r2 == n2 % t
        q1 == (r2 * Limb) \div t
        r1 == (r2 * Limb) % t
        q0 == (r1 * Limb) \div t
        r0 == (r1 * Limb) % t
    IN  RoundDouble(<<q2, q1, q0>>, IF r0 > 0 THEN 1 ELSE 0)

\* x - y for doubles x >= y.
FSub(x, y) == RoundDouble(Norm(x[1] - y[1], x[2] - y[2], x[3] - y[3]), 0)

\* float(n) * x for an integer 0 <= n < 2^10 and a double x < 1.
FMulInt(n, x) == RoundDouble(Norm(n * x[1], n * x[2], n * x[3]), 0)

\* x > y
FGT(x, y) ==
    \/ x[1] > y[1]
    \/ x[1] = y[1] /\ x[2] > y[2]
    \/ x[1] = y[1] /\ x[2] = y[2] /\ x[3] > y[3]

\* int(x): truncation of a non-negative double.
FInt(x) == x[1] \div Limb

\* A decimal literal d/10 of the source is the double nearest to it.
Tenths(d) == FDiv(d, 10)

(***************************************************************************)
(* Image data.  A blob of bytes is described by what the program and the   *)
(* imaging library can observe of it:                                      *)
(*   size : len(image_data)                                                *)
(*   dec  : "ok"        Image.open and the later pixel load both succeed   *)
(*          "truncated" Image.open identifies the header (it is lazy), the *)
(*                      pixel load inside convert/split/save raises        *)
(*          "bad"       Image.open raises                                  *)
(*   mode, w, h : img.mode, img.width, img.height                          *)
(*   k    : detail of the picture, the encoder's bytes per pixel at        *)
(*          quality 100                                                    *)
(*   q    : the quality this blob was encoded with by the program          *)
(*          (0 for bytes the program did not produce)                      *)
(***************************************************************************)
Blob(size, dec, mode, w, h, k) ==
    [size |-> size, dec |-> dec, mode |-> mode, w |-> w, h |-> h, k |-> k, q |-> 0]

\* img.save(output, format='JPEG', quality=q, optimize=True); output.tell()
JpegBytes(img, quality) == 20 + (img.k * img.w * img.h * quality) \div 100

\* The JPEG encoder writes RGB; the bytes it returns decode again.
JpegSave(img, quality) ==
    IF img.mode # "RGB" \/ img.dec # "ok" \/ img.w < 1 \/ img.h < 1
    THEN [raised |-> TRUE]
    ELSE [raised |-> FALSE,
          data |-> [size |-> JpegBytes(img, quality), dec |-> "ok", mode |-> "RGB",
                    w |-> img.w, h |-> img.h, k |-> img.k, q |-> quality]]

\* Colour-mode normalisation: every mode ends as opaque RGB, size unchanged.
NormalizeMode(img) ==
    IF img.mode \in {"RGBA", "LA", "P"} THEN [img EXCEPT !.mode = "RGB"]
    ELSE IF img.mode # "RGB" THEN [img EXCEPT !.mode = "RGB"]
    ELSE img

\* img.resize((nw, nh), LANCZOS): the library refuses a size below 1 x 1.
Resize(img, nw, nh) ==
    IF nw < 1 \/ nh < 1 THEN [raised |-> TRUE]
    ELSE [raised |-> FALSE, img |-> [img EXCEPT !.w = nw, !.h = nh]]

\* `resized` before the scale loop has assigned it: using it raises NameError.
Unbound == [mode |-> "unbound", dec |-> "unbound", w |-> 0, h |-> 0, k |-> 0]

Returned(data, fmt) == [kind |-> "return", data |-> data, fmt |-> fmt]
Raised == [kind |-> "raise"]

QualityStart == 95
QualityFloor == 5
QualityStep == 5
ScaleQuality == 85
FallbackQuality == 60

\* while quality > 5: save; if size <= target: return; quality -= 5
\* Yields the encoding returned, or "none" when the loop falls through.
RECURSIVE QualitySearch(_, _, _)
QualitySearch(img, quality, target) ==
    IF quality > QualityFloor
    THEN LET out == JpegSave(img, quality)
         IN  IF out.raised THEN Raised
             ELSE IF out.data.size <= target THEN Returned(out.data, "jpg")
             ELSE QualitySearch(img, quality - QualityStep, target)
    ELSE [kind |-> "none"]

\* The loop condition of the scale search: scale > 0.3 on doubles.
ScaleLoopRuns(scale) == FGT(scale, Tenths(3))

\* scale = 0.9; while scale > 0.3: resize; save at 85; return if it fits;
\* scale -= 0.1.  After the loop: save the last `resized` at quality 60.
RECURSIVE ScaleSearch(_, _, _, _)
ScaleSearch(img, scale, resized, target) ==
    IF ScaleLoopRuns(scale)
    THEN LET r == Resize(img, FInt(FMulInt(img.w, scale)), FInt(FMulInt(img.h, scale)))
         IN  IF r.raised THEN Raised
             ELSE LET out == JpegSave(r.img, ScaleQuality)
                  IN  IF out.raised THEN Raised
                      ELSE IF out.data.size <= target THEN Returned(out.data, "jpg")
                      ELSE ScaleSearch(img, FSub(scale, Tenths(1)), r.img, target)
    ELSE LET out == JpegSave(resized, FallbackQuality)
         IN  IF out.raised THEN Raised ELSE Returned(out.data, "jpg")

\* compress_image(image_data): (bytes, format) or an exception.
compress_image(image_data, target) ==
    IF image_data.dec = "bad" THEN Returned(image_data, "original")
    ELSE IF image_data.dec = "truncated" THEN Raised
    ELSE LET img == NormalizeMode(image_data)
             byQuality == QualitySearch(img, QualityStart, target)
         IN  IF byQuality.kind # "none" THEN byQuality
             ELSE ScaleSearch(img, Tenths(9), Unbound, target)

KiB == 1024

\* HWPXImageCompressorAdvanced.__init__: target_size_bytes
TargetBytes(target_size_kb) == target_size_kb * KiB

(***************************************************************************)
(* Base64.  An attribute value is described by the payload it decodes to,  *)
(* whether b64decode accepts it (valid padding), and whether it is the     *)
(* canonical text b64encode would produce (no line breaks).                *)
(***************************************************************************)
B64Encode(data) == [valid |-> TRUE, canon |-> TRUE, payload |-> data]

\* len(base64_str)
B64Len(attr) ==
    LET n == 4 * ((attr.payload.size + 2) \div 3)
    IN  IF attr.canon THEN n ELSE n + n \div 76

MinBase64Len == 100

\* compress_base64_image(base64_string):
\*   (base64, original_size, compressed_size, was_compressed),
\*   with `calls` the blobs handed to compress_image on the way.
\* Lines 98-108: what compress_base64_image makes of compress_image's outcome r.
Reencoded(attr, r) ==
    IF r.kind = "raise"
    THEN [b64 |-> attr, orig |-> 0, comp |-> 0, was |-> FALSE, calls |-> {attr.payload}]
    ELSE [b64 |-> B64Encode(r.data), orig |-> attr.payload.size,
          comp |-> r.data.size, was |-> TRUE, calls |-> {attr.payload}]

\* compress_base64_image with the size test of line 94 taken strictly.
compress_base64_image_strict(attr, target) ==
    IF ~attr.valid
    THEN [b64 |-> attr, orig |-> 0, comp |-> 0, was |-> FALSE, calls |-> {}]
    ELSE IF attr.payload.size < target
    THEN [b64 |-> attr, orig |-> attr.payload.size, comp |-> attr.payload.size,
          was |-> FALSE, calls |-> {}]
    ELSE Reencoded(attr, compress_image(attr.payload, target))

compress_base64_image(attr, target) ==
    IF ~attr.valid
    THEN [b64 |-> attr, orig |-> 0, comp |-> 0, was |-> FALSE, calls |-> {}]
    ELSE IF attr.payload.size <= target
    THEN [b64 |-> attr, orig |-> attr.payload.size, comp |-> attr.payload.size,
          was |-> FALSE, calls |-> {}]
    ELSE Reencoded(attr, compress_image(attr.payload, target))

(***************************************************************************)
(* XML content documents.                                                  *)
(*   wf   : ET.fromstring parses it                                        *)
(*   ns   : it declares an XML namespace (xmlns / xmlns:prefix)            *)
(*   fill : some element carries a fillImagePath attribute                 *)
(*   bins : the values of the 'bin' attributes, in document order          *)
(*   ser  : the text is ET.tostring output rather than the original text   *)
(***************************************************************************)
Doc(wf, ns, fill, bins) ==
    [wf |-> wf, ns |-> ns, fill |-> fill, bins |-> bins, ser |-> FALSE]

\* Lines 134-140: the attribute is replaced and counted if was_compressed.
Replaced(i, acc, r) ==
    IF r.was
    THEN [bins |-> [acc.bins EXCEPT ![i] = r.b64],
          compressed_count |-> acc.compressed_count + 1,
          total_original |-> acc.total_original + r.orig,
          total_compressed |-> acc.total_compressed + r.comp,
          modified |-> TRUE,
          calls |-> acc.calls \cup r.calls]
    ELSE [acc EXCEPT !.calls = acc.calls \cup r.calls]

\* Lines 130-142: one element carrying a 'bin' attribute.
ScanOne(attr, i, acc, target) ==
    IF B64Len(attr) > MinBase64Len
    THEN Replaced(i, acc, compress_base64_image(attr, target))
    ELSE acc

\* The loop over root.iter() for 'bin' attributes, from attribute i on.
RECURSIVE ScanBins(_, _, _, _)
ScanBins(bins, i, acc, target) ==
    IF i > Len(bins) THEN acc
    ELSE ScanBins(bins, i + 1, ScanOne(bins[i], i, acc, target), target)

\* The namespace loop: `prefix, uri = event` unpacks the event name
\* 'start-ns' (eight characters) instead of the (prefix, uri) pair, so the
\* first namespace declaration raises ValueError.
NamespaceLoopRaises(doc) == doc.ns

Untouched(doc, calls) ==
    [content |-> doc, count |-> 0, orig |-> 0, comp |-> 0, calls |-> calls]

\* compressed_count = 0; total_original = 0; total_compressed = 0; modified = False
ScanStart(doc) ==
    [bins |-> doc.bins, compressed_count |-> 0, total_original |-> 0,
     total_compressed |-> 0, modified |-> FALSE, calls |-> {}]

\* Lines 150-153: ET.tostring of the modified tree, or the original text.
Serialized(doc, acc) ==
    IF acc.modified
    THEN [content |-> [doc EXCEPT !.bins = acc.bins, !.ser = TRUE],
          count |-> acc.compressed_count, orig |-> acc.total_original,
          comp |-> acc.total_compressed, calls |-> acc.calls]
    ELSE Untouched(doc, acc.calls)

\* process_xml_images(xml_content, file_path):
\*   (content, compressed_count, total_original, total_compressed)
process_xml_images(doc, target) ==
    IF ~doc.wf THEN Untouched(doc, {})
    ELSE IF NamespaceLoopRaises(doc) THEN Untouched(doc, {})
    ELSE Serialized(doc, ScanBins(doc.bins, 1, ScanStart(doc), target))

(***************************************************************************)
(* Archives and the scratch directory.                                     *)
(*   bin   : the files of BinData/, in os.listdir order; [ext, data]       *)
(*   xml   : the files of Contents/, in os.listdir order; [ext, doc]       *)
(*   extra : every other entry, [path, dir]; dir marks a directory entry   *)
(***************************************************************************)
image_extensions == {"png", "jpg", "jpeg", "bmp", "gif"}

EmptyTree == [bin |-> <<>>, xml |-> <<>>, extra |-> {}]

\* Relative paths of the entries of an archive or tree.
PathSet(t) ==
    {<<"BinData", i>> : i \in 1..Len(t.bin)} \cup
    {<<"Contents", i>> : i \in 1..Len(t.xml)} \cup
    {<<e.path, 0>> : e \in t.extra}

\* zip_ref.extractall(temp_dir) into a tree already holding `into`.
ExtractAll(archive, into) ==
    [bin |-> archive.bin, xml |-> archive.xml, extra |-> into.extra \cup archive.extra]

\* os.walk(temp_dir): `for file in files` writes the files of every
\* directory; the directories themselves are not written.
WalkFiles(tree) ==
    [bin |-> tree.bin, xml |-> tree.xml, extra |-> {e \in tree.extra : ~e.dir}]

\* image_files: the indices of BinData files with an image extension.
RECURSIVE ImageFiles(_, _)
ImageFiles(bin, i) ==
    IF i > Len(bin) THEN <<>>
    ELSE (IF bin[i].ext \in image_extensions THEN <<i>> ELSE <<>>) \o ImageFiles(bin, i + 1)

\* image_info.sort(key=getsize, reverse=True): a stable sort, so files of
\* equal size keep their listing order.
RECURSIVE InsertDesc(_, _, _)
InsertDesc(sorted, i, bin) ==
    IF sorted = <<>> THEN <<i>>
    ELSE IF bin[Head(sorted)].data.size >= bin[i].data.size
    THEN <<Head(sorted)>> \o InsertDesc(Tail(sorted), i, bin)
    ELSE <<i>> \o sorted

RECURSIVE SortDesc(_, _, _)
SortDesc(files, sorted, bin) ==
    IF files = <<>> THEN sorted
    ELSE SortDesc(Tail(files), InsertDesc(sorted, Head(files), bin), bin)

\* xml_files: the indices of Contents files whose name ends with '.xml'.
RECURSIVE XmlFiles(_, _)
XmlFiles(xml, i) ==
    IF i > Len(xml) THEN <<>>
    ELSE (IF xml[i].ext = "xml" THEN <<i>> ELSE <<>>) \o XmlFiles(xml, i + 1)

\* A percentage of the assets still to go instead of the assets done.
BinProgressRemaining(idx, total_images) ==
    IF total_images > 0
    THEN FInt(FMulInt(100, FDiv(total_images - idx, total_images)))
    ELSE 0

\* progress_pct = int((idx / total_images) * 100) if total_images > 0 else 0
BinProgress(idx, total_images) ==
    IF total_images > 0 THEN FInt(FMulInt(100, FDiv(idx, total_images))) ELSE 0

\* 80 + int((idx / len(xml_files)) * 15) if xml_files else 80
XmlProgress(idx, n) ==
    IF n > 0 THEN 80 + FInt(FMulInt(15, FDiv(idx, n))) ELSE 80

(***************************************************************************)
(* Bounds and the inputs the model draws from.                             *)
(***************************************************************************)
MaxFiles == 2       \* files in BinData/ plus files in Contents/
MaxFaults == 1      \* I/O errors injected into one behaviour
MaxRuns == 2        \* process_hwpx runs chained output -> input
MaxDim == 6         \* image width and height (codec inputs)
MaxDetail == 3      \* picture detail levels (codec inputs)
MaxDrops == 3       \* drop events that start a worker thread
MaxDropFiles == 2   \* .hwpx files in one drop

TargetKbs == {1, 2}

Small == KiB
Big == 5 * KiB

\* Pictures stored in the archives the pipeline is run on.
SmallImage == Blob(Small, "ok", "RGB", 4, 4, 100)
BadImage == Blob(Big, "bad", "none", 0, 0, 0)
FitImage == Blob(Big, "ok", "RGBA", 4, 4, 100)
HardImage == Blob(Big, "ok", "RGB", 6, 6, 4000)
ThinImage == Blob(Big, "ok", "RGB", 2, 6, 4000)
TinyImage == Blob(60, "ok", "RGB", 1, 1, 100)
\* Its quality-50 encoding has exactly Small bytes.
EdgeImage == Blob(Big, "ok", "RGB", 2, 4, 251)

AssetFiles ==
    {[ext |-> "png", data |-> b] : b \in {SmallImage, BadImage, FitImage, HardImage, ThinImage, EdgeImage}}
    \cup {[ext |-> "dat", data |-> HardImage]}

InlineSmall == [valid |-> TRUE, canon |-> TRUE, payload |-> SmallImage]
InlineFit == [valid |-> TRUE, canon |-> FALSE, payload |-> FitImage]
InlineBad == [valid |-> TRUE, canon |-> TRUE, payload |-> BadImage]
InlineTiny == [valid |-> TRUE, canon |-> TRUE, payload |-> TinyImage]
InlineJunk == [valid |-> FALSE, canon |-> FALSE, payload |-> HardImage]

ContentFiles ==
    {[ext |-> "xml", doc |-> d] :
        d \in {Doc(FALSE, FALSE, FALSE, <<InlineFit>>),
               Doc(TRUE, TRUE, FALSE, <<InlineFit>>),
               Doc(TRUE, FALSE, TRUE, <<InlineSmall, InlineFit>>),
               Doc(TRUE, FALSE, FALSE, <<InlineBad, InlineTiny, InlineJunk>>)}}
    \cup {[ext |-> "txt", doc |-> Doc(TRUE, FALSE, FALSE, <<InlineFit>>)]}

Mimetype == [path |-> "mimetype", dir |-> FALSE]
DeepFile == [path |-> "META-INF/sub/container.xml", dir |-> FALSE]
DirEntry == [path |-> "Preview/", dir |-> TRUE]
Leftover == [path |-> "leftover.tmp", dir |-> FALSE]

Layouts == {{Mimetype}, {Mimetype, DeepFile, DirEntry}}

RECURSIVE SeqsUpTo(_, _)
SeqsUpTo(S, n) ==
    IF n = 0 THEN {<<>>}
    ELSE LET shorter == SeqsUpTo(S, n - 1)
         IN  shorter \cup {Append(q, x) : q \in {r \in shorter : Len(r) = n - 1}, x \in S}

Archives ==
    {[bin |-> b, xml |-> x, extra |-> e] :
        b \in SeqsUpTo(AssetFiles, MaxFiles), x \in SeqsUpTo(ContentFiles, MaxFiles),
        e \in Layouts}

NoArchive == [written |-> FALSE, tree |-> EmptyTree]
NoResult == [returned |-> FALSE]

(***************************************************************************)
(* State.                                                                  *)
(***************************************************************************)
VARIABLES
    target_size_bytes,      \* self.target_size_bytes
    archive,                \* the archive at hwpx_path
    output,                 \* the archive at output_path
    temp_exists,            \* os.path.exists('temp_hwpx_processing')
    temp_dir,               \* the tree under temp_hwpx_processing
    pc,                     \* position of process_hwpx
    idx,                    \* loop index of the current pass
    image_info,             \* BinData images, largest first
    xml_files,              \* Contents/*.xml
    compressed_count, skipped_count, total_original_size, total_compressed_size,
    xml_compressed_count, xml_total_original, xml_total_compressed,
    result,                 \* what process_hwpx returned
    progress,               \* the progress_callback calls of this run
    codec_calls,            \* the blobs handed to compress_image in this run
    run,                    \* number of the current run
    io_faults,              \* I/O errors injected so far
    c_image, c_target, c_result,    \* codec: one compress_image call
    is_processing, workers, status_label   \* front end

fsvars == <<archive, output, temp_exists, temp_dir>>
stats == <<compressed_count, skipped_count, total_original_size, total_compressed_size,
           xml_compressed_count, xml_total_original, xml_total_compressed>>
loopvars == <<idx, image_info, xml_files>>
pipevars == <<target_size_bytes, fsvars, pc, loopvars, stats, result, progress,
              codec_calls, run, io_faults>>
codecvars == <<c_image, c_target, c_result>>
guivars == <<is_processing, workers, status_label>>
vars == <<pipevars, codecvars, guivars>>

CodecIdle ==
    /\ c_image = BadImage
    /\ c_target = 0
    /\ c_result = [kind |-> "idle"]

GuiIdle ==
    /\ is_processing = FALSE
    /\ workers = <<>>
    /\ status_label = "idle"

FreshRun ==
    /\ pc = "idle"
    /\ idx = 0
    /\ image_info = <<>>
    /\ xml_files = <<>>
    /\ compressed_count = 0
    /\ skipped_count = 0
    /\ total_original_size = 0
    /\ total_compressed_size = 0
    /\ xml_compressed_count = 0
    /\ xml_total_original = 0
    /\ xml_total_compressed = 0
    /\ result = NoResult
    /\ progress = <<>>
    /\ codec_calls = {}

PipeIdle ==
    /\ target_size_bytes = TargetBytes(1)
    /\ archive = [bin |-> <<>>, xml |-> <<>>, extra |-> {Mimetype}]
    /\ output = NoArchive
    /\ temp_exists = FALSE
    /\ temp_dir = EmptyTree
    /\ FreshRun
    /\ run = 1
    /\ io_faults = 0

\* A compressor of some target size, an archive with at most MaxFiles
\* image and content files, and a scratch path that is free or still holds
\* what an earlier run left behind.
Init ==
    /\ target_size_bytes = TargetBytes(1)
    /\ archive \in {a \in Archives : Len(a.bin) + Len(a.xml) <= MaxFiles}
    /\ output = NoArchive
    /\ temp_exists \in BOOLEAN
    /\ temp_dir = IF temp_exists THEN [EmptyTree EXCEPT !.extra = {Leftover}] ELSE EmptyTree
    /\ FreshRun
    /\ run = 1
    /\ io_faults = 0
    /\ CodecIdle
    /\ GuiIdle

\* progress_callback(percentage, label, current, total, elapsed); the label
\* names the stage the call is made from.
Callback(stage, pct, current, total) ==
    Append(progress, [stage |-> stage, pct |-> pct, current |-> current, total |-> total])

(***************************************************************************)
(* process_hwpx                                                            *)
(***************************************************************************)
\* Lines 161-162: the path does not end with '.hwpx'.
Rejected ==
    /\ pc = "idle"
    /\ pc' = "rejected"
    /\ result' = [returned |-> TRUE, ok |-> FALSE, msg |-> "not hwpx"]
    /\ UNCHANGED <<target_size_bytes, fsvars, loopvars, stats, progress, codec_calls,
                   run, io_faults, codecvars, guivars>>

\* os.makedirs alone: the prior occupant stays.
PrepareScratchKeepsOccupant == [exists |-> TRUE, tree |-> temp_dir]

\* shutil.rmtree(temp_dir) of the prior occupant, then os.makedirs(temp_dir).
PrepareScratch == [exists |-> TRUE, tree |-> EmptyTree]

\* Lines 164-176: scratch directory destroyed and recreated, first callback.
Start ==
    /\ pc = "idle"
    /\ temp_exists' = PrepareScratch.exists
    /\ temp_dir' = PrepareScratch.tree
    /\ progress' = Callback("extract", 0, 0, 0)
    /\ pc' = "extract"
    /\ UNCHANGED <<target_size_bytes, archive, output, loopvars, stats, result,
                   codec_calls, run, io_faults, codecvars, guivars>>

\* Lines 169-171 raise (rmtree or makedirs fails): they are outside the try,
\* so the exception leaves process_hwpx.
StartRaises ==
    /\ pc = "idle"
    /\ io_faults < MaxFaults
    /\ io_faults' = io_faults + 1
    /\ \/ temp_exists /\ UNCHANGED <<temp_exists, temp_dir>>          \* rmtree failed
       \/ temp_exists' = FALSE /\ temp_dir' = EmptyTree               \* makedirs failed
    /\ pc' = "raised"
    /\ UNCHANGED <<target_size_bytes, archive, output, loopvars, stats, result,
                   progress, codec_calls, run, codecvars, guivars>>

\* Lines 178-201: unpack, list and sort BinData.
Extract ==
    /\ pc = "extract"
    /\ temp_dir' = ExtractAll(archive, temp_dir)
    /\ image_info' = SortDesc(ImageFiles(archive.bin, 1), <<>>, archive.bin)
    /\ idx' = 0
    /\ pc' = "bin"
    /\ UNCHANGED <<target_size_bytes, archive, output, temp_exists, xml_files, stats,
                   result, progress, codec_calls, run, io_faults, codecvars, guivars>>

\* An exception inside the try but outside the per-item handlers.
Throw ==
    /\ io_faults < MaxFaults
    /\ io_faults' = io_faults + 1
    /\ pc' = "except"

\* zipfile.ZipFile / extractall raises (unreadable archive, disk error).
ExtractRaises ==
    /\ pc = "extract"
    /\ Throw
    /\ UNCHANGED <<target_size_bytes, fsvars, loopvars, stats, result, progress,
                   codec_calls, run, codecvars, guivars>>

\* The size test of line 226 taken strictly.
SkipAssetStrict(original_size) == original_size < target_size_bytes

\* Line 226: if original_size <= self.target_size_bytes
SkipAsset(original_size) == original_size <= target_size_bytes

\* Lines 220-246: asset i was read; r is what compress_image makes of it.
BinOutcome(i, original_data, r) ==
    /\ total_original_size' = total_original_size + original_data.size
    /\ IF SkipAsset(original_data.size)
       THEN /\ total_compressed_size' = total_compressed_size + original_data.size
            /\ skipped_count' = skipped_count + 1
            /\ UNCHANGED <<temp_dir, compressed_count, codec_calls>>
       ELSE /\ codec_calls' = codec_calls \cup {original_data}
            /\ IF r.kind = "return"
               THEN /\ temp_dir' = [temp_dir EXCEPT !.bin[i].data = r.data]
                    /\ compressed_count' = compressed_count + 1
                    /\ total_compressed_size' = total_compressed_size + r.data.size
               ELSE /\ total_compressed_size' = total_compressed_size + original_data.size
                    /\ UNCHANGED <<temp_dir, compressed_count>>
            /\ UNCHANGED skipped_count

\* Lines 203-246, one iteration of the BinData loop.
BinStep ==
    /\ pc = "bin"
    /\ idx < Len(image_info)
    /\ progress' = Callback("bin", BinProgress(idx, Len(image_info)), idx + 1, Len(image_info))
    /\ BinOutcome(image_info[idx + 1], temp_dir.bin[image_info[idx + 1]].data,
                  compress_image(temp_dir.bin[image_info[idx + 1]].data, target_size_bytes))
    /\ idx' = idx + 1
    /\ UNCHANGED <<target_size_bytes, archive, output, temp_exists, pc, image_info,
                   xml_files, xml_compressed_count, xml_total_original,
                   xml_total_compressed, result, run, io_faults, codecvars, guivars>>

\* Lines 204, 220-221: getsize or the read of an asset raises; these are
\* outside the per-asset try.
BinReadRaises ==
    /\ pc = "bin"
    /\ idx < Len(image_info)
    /\ Throw
    /\ UNCHANGED <<target_size_bytes, fsvars, loopvars, stats, result, progress,
                   codec_calls, run, codecvars, guivars>>

\* Lines 237-246: the write of the compressed asset raises; the per-asset
\* handler counts the asset with its original size and goes on.
BinWriteFails ==
    /\ pc = "bin"
    /\ idx < Len(image_info)
    /\ io_faults < MaxFaults
    /\ LET original_data == temp_dir.bin[image_info[idx + 1]].data
       IN  /\ ~SkipAsset(original_data.size)
           /\ compress_image(original_data, target_size_bytes).kind = "return"
           /\ progress' = Callback("bin", BinProgress(idx, Len(image_info)), idx + 1, Len(image_info))
           /\ total_original_size' = total_original_size + original_data.size
           /\ total_compressed_size' = total_compressed_size + original_data.size
           /\ codec_calls' = codec_calls \cup {original_data}
    /\ io_faults' = io_faults + 1
    /\ idx' = idx + 1
    /\ UNCHANGED <<target_size_bytes, fsvars, pc, image_info, xml_files, compressed_count,
                   skipped_count, xml_compressed_count, xml_total_original,
                   xml_total_compressed, result, run, codecvars, guivars>>

\* Lines 248-260: the BinData loop is over; list Contents/*.xml.
ListXml ==
    /\ pc = "bin"
    /\ idx = Len(image_info)
    /\ xml_files' = XmlFiles(temp_dir.xml, 1)
    /\ idx' = 0
    /\ pc' = "xml"
    /\ UNCHANGED <<target_size_bytes, fsvars, image_info, stats, result, progress,
                   codec_calls, run, io_faults, codecvars, guivars>>

\* Lines 281-295: document i was read; r is what process_xml_images returned.
XmlOutcome(i, r) ==
    /\ codec_calls' = codec_calls \cup r.calls
    /\ IF r.count > 0
       THEN /\ temp_dir' = [temp_dir EXCEPT !.xml[i].doc = r.content]
            /\ xml_compressed_count' = xml_compressed_count + r.count
            /\ xml_total_original' = xml_total_original + r.orig
            /\ xml_total_compressed' = xml_total_compressed + r.comp
       ELSE UNCHANGED <<temp_dir, xml_compressed_count, xml_total_original,
                        xml_total_compressed>>

\* Lines 262-298, one iteration of the XML loop.
XmlStep ==
    /\ pc = "xml"
    /\ idx < Len(xml_files)
    /\ progress' = Callback("xml", XmlProgress(idx, Len(xml_files)), idx + 1, Len(xml_files))
    /\ XmlOutcome(xml_files[idx + 1],
                  process_xml_images(temp_dir.xml[xml_files[idx + 1]].doc, target_size_bytes))
    /\ idx' = idx + 1
    /\ UNCHANGED <<target_size_bytes, archive, output, temp_exists, pc, image_info,
                   xml_files, compressed_count, skipped_count, total_original_size,
                   total_compressed_size, result, run, io_faults, codecvars, guivars>>

\* Lines 277-298: the read of a document raises (I/O error, not UTF-8);
\* the per-document handler goes on with the next document.
XmlReadFails ==
    /\ pc = "xml"
    /\ idx < Len(xml_files)
    /\ io_faults < MaxFaults
    /\ io_faults' = io_faults + 1
    /\ progress' = Callback("xml", XmlProgress(idx, Len(xml_files)), idx + 1, Len(xml_files))
    /\ idx' = idx + 1
    /\ UNCHANGED <<target_size_bytes, fsvars, pc, image_info, xml_files, stats, result,
                   codec_calls, run, codecvars, guivars>>

\* Lines 300-311: the XML loop is over; write the output archive.
Repack ==
    /\ pc = "xml"
    /\ idx = Len(xml_files)
    /\ progress' = Callback("repack", 95, 0, 0)
    /\ output' = [written |-> TRUE, tree |-> WalkFiles(temp_dir)]
    /\ pc' = "cleanup"
    /\ UNCHANGED <<target_size_bytes, archive, temp_exists, temp_dir, loopvars, stats,
                   result, codec_calls, run, io_faults, codecvars, guivars>>

\* Lines 306-311 raise (output not writable, disk full).
RepackRaises ==
    /\ pc = "xml"
    /\ idx = Len(xml_files)
    /\ progress' = Callback("repack", 95, 0, 0)
    /\ Throw
    /\ UNCHANGED <<target_size_bytes, fsvars, loopvars, stats, result, codec_calls,
                   run, codecvars, guivars>>

\* shutil.rmtree(temp_dir)
RemoveScratch == [exists |-> FALSE, tree |-> EmptyTree]

\* Lines 313-344: scratch removed, statistics returned.
Finish ==
    /\ pc = "cleanup"
    /\ temp_exists' = RemoveScratch.exists
    /\ temp_dir' = RemoveScratch.tree
    /\ result' = [returned |-> TRUE, ok |-> TRUE,
                  compressed_count |-> compressed_count,
                  skipped_count |-> skipped_count,
                  xml_compressed_count |-> xml_compressed_count,
                  total_all_compressed |-> compressed_count + xml_compressed_count,
                  total_all_original |-> total_original_size + xml_total_original,
                  total_all_compressed_size |-> total_compressed_size + xml_total_compressed]
    /\ pc' = "done"
    /\ UNCHANGED <<target_size_bytes, archive, output, loopvars, stats, progress,
                   codec_calls, run, io_faults, codecvars, guivars>>

\* Line 313 raises: the final rmtree fails.
FinalRmtreeRaises ==
    /\ pc = "cleanup"
    /\ Throw
    /\ UNCHANGED <<target_size_bytes, fsvars, loopvars, stats, result, progress,
                   codec_calls, run, codecvars, guivars>>

\* Lines 346-351: the handler removes the scratch directory if it exists
\* and returns the failure.
HandlerReturns ==
    /\ pc = "except"
    /\ temp_exists' = (IF temp_exists THEN RemoveScratch.exists ELSE FALSE)
    /\ temp_dir' = (IF temp_exists THEN RemoveScratch.tree ELSE temp_dir)
    /\ result' = [returned |-> TRUE, ok |-> FALSE, msg |-> "error"]
    /\ pc' = "failed"
    /\ UNCHANGED <<target_size_bytes, archive, output, loopvars, stats, progress,
                   codec_calls, run, io_faults, codecvars, guivars>>

\* Line 348 raises inside the handler: the exception leaves process_hwpx.
HandlerRaises ==
    /\ pc = "except"
    /\ temp_exists
    /\ pc' = "raised"
    /\ UNCHANGED <<target_size_bytes, fsvars, loopvars, stats, result, progress,
                   codec_calls, run, io_faults, codecvars, guivars>>

\* process_hwpx is run again, on the archive the finished run wrote.
Rerun ==
    /\ pc = "done"
    /\ run < MaxRuns
    /\ run' = run + 1
    /\ archive' = output.tree
    /\ output' = NoArchive
    /\ pc' = "idle"
    /\ idx' = 0
    /\ image_info' = <<>>
    /\ xml_files' = <<>>
    /\ compressed_count' = 0
    /\ skipped_count' = 0
    /\ total_original_size' = 0
    /\ total_compressed_size' = 0
    /\ xml_compressed_count' = 0
    /\ xml_total_original' = 0
    /\ xml_total_compressed' = 0
    /\ result' = NoResult
    /\ progress' = <<>>
    /\ codec_calls' = {}
    /\ UNCHANGED <<target_size_bytes, temp_exists, temp_dir, io_faults, codecvars, guivars>>

Next ==
    \/ Rejected
    \/ Start
    \/ StartRaises
    \/ Extract
    \/ ExtractRaises
    \/ BinStep
    \/ BinReadRaises
    \/ BinWriteFails
    \/ ListXml
    \/ XmlStep
    \/ XmlReadFails
    \/ Repack
    \/ RepackRaises
    \/ Finish
    \/ FinalRmtreeRaises
    \/ HandlerReturns
    \/ HandlerRaises
    \/ Rerun

Spec == Init /\ [][Next]_vars

(***************************************************************************)
(* One compress_image call on any image of the bounded input space.        *)
(***************************************************************************)
Modes == {"RGB", "RGBA", "LA", "P", "L"}
Details == {100 * Pow2(2 * d) : d \in 0..(MaxDetail - 1)}

CodecImages ==
    {Blob(size, "ok", mode, w, h, k) :
        size \in {Small, Big}, mode \in Modes, w \in 1..MaxDim, h \in 1..MaxDim, k \in Details}
    \cup {Blob(size, dec, "RGB", MaxDim, MaxDim, 100) :
        size \in {Small, Big}, dec \in {"truncated", "bad"}}

InitCodec ==
    /\ PipeIdle
    /\ GuiIdle
    /\ c_image \in CodecImages
    /\ c_target \in {TargetBytes(kb) : kb \in TargetKbs}
    /\ c_result = [kind |-> "idle"]

Compress ==
    /\ c_result.kind = "idle"
    /\ c_result' = compress_image(c_image, c_target)
    /\ UNCHANGED <<pipevars, guivars, c_image, c_target>>

NextCodec == Compress

SpecCodec == InitCodec /\ [][NextCodec]_vars

(***************************************************************************)
(* HWPXCompressorGUI: drop events on the Tk main thread, process_files on  *)
(* worker threads.  A worker is [pc, files]:                               *)
(*   "spawned"  thread.start() has returned, line 509 has not run yet      *)
(*   "loop"     between two process_hwpx calls (lines 510-517, 523-524)    *)
(*   "inrun"    inside process_hwpx, owning temp_hwpx_processing           *)
(*   "finished" process_files returned                                     *)
(*   "dead"     process_hwpx raised; the thread ended at line 518          *)
(***************************************************************************)
InitGui ==
    /\ PipeIdle
    /\ CodecIdle
    /\ GuiIdle

\* Lines 482-484: a drop while is_processing is set.
DropWhileProcessing ==
    /\ is_processing
    /\ status_label' = "busy"
    /\ UNCHANGED <<pipevars, codecvars, is_processing, workers>>

\* Lines 486-491: the drop holds no .hwpx file.
DropNoHwpx ==
    /\ ~is_processing
    /\ status_label' = "no hwpx"
    /\ UNCHANGED <<pipevars, codecvars, is_processing, workers>>

\* Lines 486-496: a worker thread is started for the n dropped .hwpx files.
DropStartsWorker ==
    /\ ~is_processing
    /\ Len(workers) < MaxDrops
    /\ \E n \in 1..MaxDropFiles :
          workers' = Append(workers, [pc |-> "spawned", files |-> n])
    /\ UNCHANGED <<pipevars, codecvars, is_processing, status_label>>

\* Lines 509-515: the worker sets the flag.
WorkerSetsFlag(t) ==
    /\ workers[t].pc = "spawned"
    /\ is_processing' = TRUE
    /\ workers' = [workers EXCEPT ![t].pc = "loop"]
    /\ UNCHANGED <<pipevars, codecvars, status_label>>

\* Lines 517-518 and 161-171: process_hwpx is entered and takes the scratch path.
WorkerEntersRun(t) ==
    /\ workers[t].pc = "loop"
    /\ workers[t].files > 0
    /\ workers' = [workers EXCEPT ![t].pc = "inrun"]
    /\ UNCHANGED <<pipevars, codecvars, is_processing, status_label>>

\* process_hwpx returns (success or failure result).
WorkerLeavesRun(t) ==
    /\ workers[t].pc = "inrun"
    /\ workers' = [workers EXCEPT ![t].pc = "loop", ![t].files = @ - 1]
    /\ UNCHANGED <<pipevars, codecvars, is_processing, status_label>>

\* process_hwpx raises; process_files has no handler, the thread ends.
WorkerRunRaises(t) ==
    /\ workers[t].pc = "inrun"
    /\ workers' = [workers EXCEPT ![t].pc = "dead"]
    /\ UNCHANGED <<pipevars, codecvars, is_processing, status_label>>

\* Lines 526-533: the loop is over, the flag is cleared.
WorkerClearsFlag(t) ==
    /\ workers[t].pc = "loop"
    /\ workers[t].files = 0
    /\ is_processing' = FALSE
    /\ status_label' = "complete"
    /\ workers' = [workers EXCEPT ![t].pc = "finished"]
    /\ UNCHANGED <<pipevars, codecvars>>

SetsFlag == \E t \in 1..Len(workers) : WorkerSetsFlag(t)
EntersRun == \E t \in 1..Len(workers) : WorkerEntersRun(t)
LeavesRun == \E t \in 1..Len(workers) : WorkerLeavesRun(t)
RunRaises == \E t \in 1..Len(workers) : WorkerRunRaises(t)
ClearsFlag == \E t \in 1..Len(workers) : WorkerClearsFlag(t)

NextGui ==
    \/ DropWhileProcessing
    \/ DropNoHwpx
    \/ DropStartsWorker
    \/ SetsFlag
    \/ EntersRun
    \/ LeavesRun
    \/ RunRaises
    \/ ClearsFlag

SpecGui == InitGui /\ [][NextGui]_vars

(***************************************************************************)
(* Properties.                                                             *)
(***************************************************************************)
Terminal == {"done", "failed"}
AfterBinPass == {"xml", "cleanup", "done"}
ScratchHolds == pc \in {"bin", "xml", "cleanup"}

\* The recognised image files of BinData/ and the .xml files of Contents/.
Recognised(a) == {i \in 1..Len(a.bin) : a.bin[i].ext \in image_extensions}
Documents(a) == {j \in 1..Len(a.xml) : a.xml[j].ext = "xml"}

\* The 'bin' attributes of a document that the scanner looks at and that
\* decode to more than the target.
OversizeInline(doc) ==
    {b \in 1..Len(doc.bins) :
        /\ B64Len(doc.bins[b]) > MinBase64Len
        /\ doc.bins[b].valid
        /\ doc.bins[b].payload.size > target_size_bytes}

\* The quality-60 encoding of img resized to scale 0.3.
IsFallbackOf(data, img) ==
    LET nw == FInt(FMulInt(img.w, Tenths(3)))
        nh == FInt(FMulInt(img.h, Tenths(3)))
    IN  /\ nw >= 1
        /\ nh >= 1
        /\ data = JpegSave(Resize(NormalizeMode(img), nw, nh).img, FallbackQuality).data

CodecCase ==
    /\ c_result.kind # "idle"
    /\ c_image.dec = "ok"
    /\ c_image.size > c_target

\* C1: for every decodable image larger than the target, compress_image
\* returns a result that is within the target or is the quality-60 encoding
\* of the image resized to scale 0.3.
C1_ResultWithinTargetOrFallback ==
    CodecCase =>
        /\ c_result.kind = "return"
        /\ \/ c_result.data.size <= c_target
           \/ IsFallbackOf(c_result.data, c_image)

\* What compress_image does return for a decodable oversize image is within
\* the target or the scale-0.3 fallback; the other outcome is an exception.
CodecReturnsWithinTargetOrFallback ==
    (CodecCase /\ c_result.kind = "return") =>
        \/ c_result.data.size <= c_target
        \/ IsFallbackOf(c_result.data, c_image)

SecondRunDone == run >= 2 /\ pc = "done"

NothingCompressed ==
    /\ result.compressed_count = 0
    /\ result.xml_compressed_count = 0
    /\ result.skipped_count = Cardinality(Recognised(archive))

\* C2: a run on the output of an earlier successful run compresses
\* nothing: both compressed counts are 0 and every binary asset is skipped.
C2_SecondRunCompressesNothing == SecondRunDone => NothingCompressed

\* Every image of archive a is within the target.
AllWithinTarget(a) ==
    /\ \A i \in Recognised(a) : a.bin[i].data.size <= target_size_bytes
    /\ \A j \in Documents(a) : a.xml[j].doc.wf => OversizeInline(a.xml[j].doc) = {}

\* C2 (amended): a run on the output of an earlier successful run, when
\* every image of that output is within the target, compresses nothing:
\* both compressed counts are 0 and every binary asset is skipped.
C2_SecondRunOnFittedOutputCompressesNothing ==
    (SecondRunDone /\ AllWithinTarget(archive)) => NothingCompressed

\* A second run finished on an archive holding an asset that the first run
\* compressed to exactly the target.
C2_Witness ==
    /\ SecondRunDone
    /\ AllWithinTarget(archive)
    /\ \E i \in Recognised(archive) :
          archive.bin[i].data.q > 0 /\ archive.bin[i].data.size = target_size_bytes

\* C3: once past validation the scratch directory is recreated empty, and
\* when process_hwpx has returned, with success or failure, it is gone.
C3_ScratchRecreatedThenGone ==
    /\ pc = "extract" => (temp_exists /\ temp_dir = EmptyTree)
    /\ pc \in Terminal => ~temp_exists

\* The failure return after the final deletion raised with the output written.
C3_Witness ==
    /\ pc = "failed"
    /\ output.written
    /\ ~temp_exists
    /\ result.returned

\* C4: process_hwpx never ends by raising once past validation; an
\* unrecoverable error ends in a failure result without statistics.
C4_ErrorsReturnFailure ==
    /\ pc # "raised"
    /\ pc = "failed" => (result.returned /\ ~result.ok)

\* C5: after a successful run the entry paths of the output archive are
\* the entry paths of the input archive.
C5_SameEntryPaths ==
    pc = "done" => PathSet(output.tree) = PathSet(archive)

\* C6: for an image within the target compress_image is never called, the
\* stored bytes stay as they were, and a binary asset is counted skipped.
C6_WithinTargetUntouched ==
    /\ \A b \in codec_calls : b.size > target_size_bytes
    /\ \A i \in Recognised(archive) :
          archive.bin[i].data.size <= target_size_bytes =>
             /\ ScratchHolds => temp_dir.bin[i] = archive.bin[i]
             /\ output.written => output.tree.bin[i] = archive.bin[i]
    /\ \A j \in Documents(archive) : \A b \in 1..Len(archive.xml[j].doc.bins) :
          (/\ archive.xml[j].doc.bins[b].valid
           /\ archive.xml[j].doc.bins[b].payload.size <= target_size_bytes) =>
             /\ ScratchHolds =>
                   temp_dir.xml[j].doc.bins[b] = archive.xml[j].doc.bins[b]
             /\ output.written =>
                   output.tree.xml[j].doc.bins[b] = archive.xml[j].doc.bins[b]
    /\ pc \in AfterBinPass =>
          /\ skipped_count =
                Cardinality({i \in Recognised(archive) :
                               archive.bin[i].data.size <= target_size_bytes})
          /\ compressed_count <=
                Cardinality({i \in Recognised(archive) :
                               archive.bin[i].data.size > target_size_bytes})

\* A finished run that skipped an asset and rewrote a document around an
\* inline image within the target.
C6_Witness ==
    /\ pc = "done"
    /\ run = 1
    /\ skipped_count > 0
    /\ \E j \in Documents(archive) :
          /\ output.tree.xml[j].doc.ser
          /\ \E b \in 1..Len(archive.xml[j].doc.bins) :
                /\ B64Len(archive.xml[j].doc.bins[b]) > MinBase64Len
                /\ archive.xml[j].doc.bins[b].payload.size <= target_size_bytes

\* The oversize inline images of the documents j.. of archive a that decode.
RECURSIVE DecodableOversizeInline(_, _)
DecodableOversizeInline(a, j) ==
    IF j > Len(a.xml) THEN 0
    ELSE (IF a.xml[j].ext = "xml" /\ a.xml[j].doc.wf
          THEN Cardinality({b \in OversizeInline(a.xml[j].doc) :
                              a.xml[j].doc.bins[b].payload.dec # "bad"})
          ELSE 0) + DecodableOversizeInline(a, j + 1)

\* C7: an oversize image that cannot be decoded keeps its bytes and is
\* counted neither in the binary nor in the XML compressed count.
C7_UndecodableNotCounted ==
    /\ \A i \in Recognised(archive) :
          archive.bin[i].data.dec = "bad" =>
             /\ ScratchHolds => temp_dir.bin[i] = archive.bin[i]
             /\ output.written => output.tree.bin[i] = archive.bin[i]
    /\ compressed_count <=
          Cardinality({i \in Recognised(archive) :
                         /\ archive.bin[i].data.size > target_size_bytes
                         /\ archive.bin[i].data.dec # "bad"})
    /\ xml_compressed_count <= DecodableOversizeInline(archive, 1)

\* C8: with no I/O error the run completes; a malformed document is left as
\* it was, and every well-formed document holding an oversize inline image
\* is scanned (the codec sees the image) and rewritten.
C8_WellFormedDocumentsProcessed ==
    (pc = "done" /\ io_faults = 0) =>
        \A j \in Documents(archive) :
            /\ ~archive.xml[j].doc.wf => output.tree.xml[j] = archive.xml[j]
            /\ archive.xml[j].doc.wf =>
                  \A b \in OversizeInline(archive.xml[j].doc) :
                      /\ archive.xml[j].doc.bins[b].payload \in codec_calls
                      /\ output.tree.xml[j].doc.ser

\* C9: every percentage handed to the progress callback is an integer in
\* 0..100, and within the binary pass and within the XML pass the
\* percentages of successive calls do not decrease.
C9_ProgressInRangeAndMonotone ==
    /\ \A n \in 1..Len(progress) : progress[n].pct \in 0..100
    /\ \A m \in 1..Len(progress) : \A n \in m..Len(progress) :
          (progress[m].stage = progress[n].stage /\ progress[m].stage \in {"bin", "xml"})
             => progress[m].pct <= progress[n].pct

\* Two calls of the binary pass with different percentages, then the XML pass.
C9_Witness ==
    /\ pc \in {"xml", "cleanup", "done"}
    /\ Len(progress) >= 3
    /\ progress[2].stage = "bin"
    /\ progress[3].stage = "bin"
    /\ progress[2].pct < progress[3].pct

InFlight == {t \in 1..Len(workers) : workers[t].pc \in {"spawned", "loop", "inrun"}}
InRun == {t \in 1..Len(workers) : workers[t].pc = "inrun"}

\* C10: at most one process_files worker is in flight, so no two runs of
\* process_hwpx use temp_hwpx_processing at the same time.
C10_OneWorkerInFlight ==
    /\ Cardinality(InFlight) <= 1
    /\ Cardinality(InRun) <= 1

\* C11: every recognised image file of BinData/ is visited once and counted
\* as exactly one of skipped or compressed: the two counts add up to the
\* assets visited so far and, when the pass is over, to the number of
\* recognised image files.
C11_EveryAssetSkippedOrCompressed ==
    /\ pc = "bin" => compressed_count + skipped_count = idx
    /\ pc \in AfterBinPass =>
          compressed_count + skipped_count = Cardinality(Recognised(archive))
====
